---- MODULE Spec2Model ----
(***************************************************************************)
(* Model of v6-omop-cohort-diagnostics (src/v6-omop-test/__init__.py).     *)
(*                                                                         *)
(*   central()             the orchestrator: list organizations, validate  *)
(*                         the selector, create one task, wait, return.    *)
(*   cohort_diagnostics()  the participant worker: derive cohort ids and   *)
(*                         the cohort table name, then run the OHDSI steps *)
(*                         in sequence.                                    *)
(*                                                                         *)
(* Specifications:                                                         *)
(*   Spec        one central() call against the orchestration service and  *)
(*               the participants of the task it creates                   *)
(*   LiveSpec    Spec with the fairness of a blocking wait and of nodes    *)
(*               that run to an outcome                                    *)
(*   IdSpec      the cohort identifier derivation applied to two items     *)
(*   WorkerSpec  two interleaved cohort_diagnostics() invocations          *)
(***************************************************************************)
EXTENDS Integers, Sequences, FiniteSets, TLC

VARIABLES
    args,          \* central: the arguments it was called with
    collab,        \* service: the organizations of the collaboration, in list order
    pc,            \* central: position in the function body
    organizations, \* central: what client.organization.list() returned
    ids,           \* central: the local variable ids
    tasks,         \* service: the tasks created, in creation order
    outcome,       \* service: per targeted participant, pending / done / failed
    svcResults,    \* service: the results of the task, in the service's order
    retval,        \* central: what the call returned
    calls,         \* service: number of calls received, per endpoint
    failed,        \* service: the calls that failed, in order
    drv,           \* identifier derivation: two items and their derived ids
    inv            \* worker: two cohort_diagnostics() invocations

vars == <<args, collab, pc, organizations, ids, tasks, outcome, svcResults,
          retval, calls, failed, drv, inv>>

centralVars == <<args, collab, pc, organizations, ids, tasks, outcome,
                 svcResults, retval, calls, failed>>

----------------------------------------------------------------------------
(* Bounds *)

MaxOrg == 3
MaxSel == 2
MaxFailures == 2
MaxCohorts == 2

----------------------------------------------------------------------------
(* Sequences helpers *)

Range(s) == {s[i] : i \in 1..Len(s)}

RECURSIVE SeqsUpTo(_, _)
SeqsUpTo(S, n) ==
    IF n = 0 THEN {<<>>}
    ELSE LET shorter == SeqsUpTo(S, n - 1)
         IN  shorter \cup {Append(s, x) : s \in {t \in shorter : Len(t) = n - 1}, x \in S}

NoRepeat(s) == \A i, j \in 1..Len(s) : i # j => s[i] # s[j]

Ascending(s) == \A i, j \in 1..Len(s) : i < j => s[i] < s[j]

----------------------------------------------------------------------------
(* central(): values *)

OrgIds == 1..MaxOrg

\* organization lists the service may hold
CollabLists == {s \in SeqsUpTo(OrgIds, MaxOrg) : Ascending(s)}

\* organizations_to_include: the sentinel "ALL" or a list of ids
AllOrgs == [all |-> TRUE, list |-> <<>>]
Selectors ==
    {AllOrgs} \cup
    {[all |-> FALSE, list |-> s] : s \in {t \in SeqsUpTo(OrgIds, MaxSel) : NoRepeat(t)}}

\* the four pass-through parameters of central()
Bundles ==
    { [cohort_definitions |-> <<"def_a">>, cohort_names |-> <<"A">>,
       temporal_covariate_settings |-> "temporal_1", diagnostics_settings |-> "diag_1"],
      [cohort_definitions |-> <<"def_a", "def_b">>, cohort_names |-> <<"A", "B">>,
       temporal_covariate_settings |-> "temporal_2", diagnostics_settings |-> "diag_2"] }

TaskIdsIssued == {34, 10000}

NoValue == [kind |-> "none"]
NoList == [known |-> FALSE, list |-> <<>>]

NotPartOfCollaboration ==
    [kind |-> "dict",
     msg |-> "You specified an organization that is not part of the collaboration"]

\* ids = [org["id"] for org in organizations]
OrgIdList(orgs) == [i \in 1..Len(orgs) |-> orgs[i].id]

\* faulty variant: the subset check is missing
NeverRejected(sel, idlist) == FALSE

\* the guard of the early return: organizations_to_include != "ALL" and
\* not set(organizations_to_include).issubset(set(ids))
SelectorRejected(sel, idlist) ==
    /\ ~sel.all
    /\ ~(Range(sel.list) \subseteq Range(idlist))

\* faulty variant: the selector is validated but never used
KeepAllIds(sel, idlist) == idlist

\* ids after the if block
ResolveIds(sel, idlist) == IF sel.all THEN idlist ELSE sel.list

\* faulty variant: the selector travels in the kwargs as well
TaskInputWithSelector(a) ==
    [method |-> "cohort_diagnostics",
     kwargs |-> [cohort_definitions |-> a.cohort_definitions,
                 cohort_names |-> a.cohort_names,
                 temporal_covariate_settings |-> a.temporal_covariate_settings,
                 diagnostics_settings |-> a.diagnostics_settings,
                 organizations_to_include |-> a.organizations_to_include]]

\* the input_ of client.task.create
TaskInput(a) ==
    [method |-> "cohort_diagnostics",
     kwargs |-> [cohort_definitions |-> a.cohort_definitions,
                 cohort_names |-> a.cohort_names,
                 temporal_covariate_settings |-> a.temporal_covariate_settings,
                 diagnostics_settings |-> a.diagnostics_settings]]

\* faulty variant: a failed service call is tried again
RetryCall(at) == at

\* central() has no try/except: a failed service call ends the call
AfterCallFailure(at) == "raised"

\* faulty variant: the results are fetched without waiting
NeverBlocked(oc) == FALSE

\* client.wait_for_results blocks until the results from all nodes are in
WaitBlocked(oc) == \E i \in DOMAIN oc : oc[i] = "pending"

----------------------------------------------------------------------------
(* central(): state and steps *)

ArgsSet ==
    {[cohort_definitions |-> b.cohort_definitions,
      cohort_names |-> b.cohort_names,
      temporal_covariate_settings |-> b.temporal_covariate_settings,
      diagnostics_settings |-> b.diagnostics_settings,
      organizations_to_include |-> sel] : b \in Bundles, sel \in Selectors}

CollabSet == {[i \in 1..Len(s) |-> [id |-> s[i]]] : s \in CollabLists}

CentralInit ==
    /\ args \in ArgsSet
    /\ collab \in CollabSet
    /\ pc = "start"
    /\ organizations = NoList
    /\ ids = <<>>
    /\ tasks = <<>>
    /\ outcome = <<>>
    /\ svcResults = <<>>
    /\ retval = NoValue
    /\ calls = [list |-> 0, create |-> 0, wait |-> 0]
    /\ failed = <<>>

CentralIdle ==
    /\ args = [cohort_definitions |-> <<>>, cohort_names |-> <<>>,
               temporal_covariate_settings |-> "", diagnostics_settings |-> "",
               organizations_to_include |-> AllOrgs]
    /\ collab = <<>>
    /\ pc = "idle"
    /\ organizations = NoList
    /\ ids = <<>>
    /\ tasks = <<>>
    /\ outcome = <<>>
    /\ svcResults = <<>>
    /\ retval = NoValue
    /\ calls = [list |-> 0, create |-> 0, wait |-> 0]
    /\ failed = <<>>

\* the task the service registers for a create call
NewTask(tid) == [id |-> tid, input |-> TaskInput(args), organizations |-> ids]

\* lines 62-75: list the organizations, validate the selector, resolve ids
CentralList ==
    /\ pc = "start"
    /\ calls' = [calls EXCEPT !.list = @ + 1]
    /\ organizations' = [known |-> TRUE, list |-> collab]
    /\ LET idlist == OrgIdList(collab)
           sel == args.organizations_to_include
       IN  IF SelectorRejected(sel, idlist)
           THEN /\ ids' = idlist
                /\ retval' = NotPartOfCollaboration
                /\ pc' = "returned"
           ELSE /\ ids' = ResolveIds(sel, idlist)
                /\ retval' = retval
                /\ pc' = "create"
    /\ UNCHANGED <<args, collab, tasks, outcome, svcResults, failed, drv, inv>>

\* client.organization.list() raises
CentralListFail ==
    /\ pc = "start"
    /\ Len(failed) < MaxFailures
    /\ calls' = [calls EXCEPT !.list = @ + 1]
    /\ failed' = Append(failed, "list")
    /\ pc' = AfterCallFailure("start")
    /\ UNCHANGED <<args, collab, organizations, ids, tasks, outcome, svcResults,
                   retval, drv, inv>>

\* lines 77-91: create the task
CentralCreate ==
    /\ pc = "create"
    /\ calls' = [calls EXCEPT !.create = @ + 1]
    /\ \E tid \in TaskIdsIssued : tasks' = Append(tasks, NewTask(tid))
    /\ outcome' = [i \in 1..Len(ids) |-> "pending"]
    /\ svcResults' = <<>>
    /\ pc' = "wait"
    /\ UNCHANGED <<args, collab, organizations, ids, retval, failed, drv, inv>>

\* client.task.create() raises; the request may or may not have reached the service
CentralCreateFail ==
    /\ pc = "create"
    /\ Len(failed) < MaxFailures
    /\ calls' = [calls EXCEPT !.create = @ + 1]
    /\ failed' = Append(failed, "create")
    /\ \E landed \in BOOLEAN :
          IF landed
          THEN /\ \E tid \in TaskIdsIssued : tasks' = Append(tasks, NewTask(tid))
               /\ outcome' = [i \in 1..Len(ids) |-> "pending"]
               /\ svcResults' = <<>>
          ELSE UNCHANGED <<tasks, outcome, svcResults>>
    /\ pc' = AfterCallFailure("create")
    /\ UNCHANGED <<args, collab, organizations, ids, retval, drv, inv>>

\* lines 93-95: the call of client.wait_for_results(task_id=task["id"])
CentralWaitCall ==
    /\ pc = "wait"
    /\ calls' = [calls EXCEPT !.wait = @ + 1]
    /\ pc' = "waiting"
    /\ UNCHANGED <<args, collab, organizations, ids, tasks, outcome, svcResults,
                   retval, failed, drv, inv>>

\* lines 95-98: wait_for_results returns and central returns all_results
CentralWaitReturn ==
    /\ pc = "waiting"
    /\ ~WaitBlocked(outcome)
    /\ retval' = [kind |-> "list", list |-> svcResults]
    /\ pc' = "returned"
    /\ UNCHANGED <<args, collab, organizations, ids, tasks, outcome, svcResults,
                   calls, failed, drv, inv>>

\* client.wait_for_results() raises
CentralWaitFail ==
    /\ pc = "waiting"
    /\ Len(failed) < MaxFailures
    /\ failed' = Append(failed, "wait")
    /\ pc' = AfterCallFailure("wait")
    /\ UNCHANGED <<args, collab, organizations, ids, tasks, outcome, svcResults,
                   retval, calls, drv, inv>>

\* the participants of the newest task
Targets == IF tasks = <<>> THEN <<>> ELSE tasks[Len(tasks)].organizations

\* a node runs cohort_diagnostics() to its return (line 191)
RunDone(i) ==
    /\ tasks # <<>>
    /\ i \in DOMAIN outcome
    /\ outcome[i] = "pending"
    /\ outcome' = [outcome EXCEPT ![i] = "done"]
    /\ svcResults' = Append(svcResults, [organization |-> Targets[i], result |-> "json"])
    /\ UNCHANGED <<args, collab, pc, organizations, ids, tasks, retval, calls,
                   failed, drv, inv>>

\* a node's cohort_diagnostics() raises
RunFail(i) ==
    /\ tasks # <<>>
    /\ i \in DOMAIN outcome
    /\ outcome[i] = "pending"
    /\ outcome' = [outcome EXCEPT ![i] = "failed"]
    /\ svcResults' = Append(svcResults, [organization |-> Targets[i], result |-> "none"])
    /\ UNCHANGED <<args, collab, pc, organizations, ids, tasks, retval, calls,
                   failed, drv, inv>>

----------------------------------------------------------------------------
(* cohort_diagnostics(): the derived names *)

TaskPad == 4
IndexPad == 3

DigitChars == <<"0", "1", "2", "3", "4", "5", "6", "7", "8", "9">>

CharVal(c) == CHOOSE d \in 0..9 : DigitChars[d + 1] = c

\* str(n) of a non-negative integer: its decimal digits
RECURSIVE Str(_)
Str(n) == IF n < 10 THEN <<DigitChars[n + 1]>>
          ELSE Append(Str(n \div 10), DigitChars[(n % 10) + 1])

\* the format spec 0<w>d: zeros on the left up to width w, never a truncation
RECURSIVE ZeroPad(_, _)
ZeroPad(s, w) == IF Len(s) >= w THEN s ELSE ZeroPad(<<"0">> \o s, w)

\* float(text) of a string of decimal digits, as the decimal digits of its value
\* (exact while the value is below 2^53, which 15 digits are)
RECURSIVE ParseFloat(_)
ParseFloat(s) == IF Len(s) > 1 /\ Head(s) = "0" THEN ParseFloat(Tail(s)) ELSE s

\* int(text) of at most 9 decimal digits; the empty text counts as 0
RECURSIVE ParseInt(_)
ParseInt(s) == IF s = <<>> THEN 0
               ELSE 10 * ParseInt(SubSeq(s, 1, Len(s) - 1)) + CharVal(s[Len(s)])

\* faulty variant: the fields are concatenated without zero padding
CohortIdTextUnpadded(node, task, i) == Str(node) \o Str(task) \o Str(i)

\* the text f"{meta_run.node_id}{meta_run.task_id:04d}{i:03d}"
CohortIdText(node, task, i) ==
    Str(node) \o ZeroPad(Str(task), TaskPad) \o ZeroPad(Str(i), IndexPad)

\* float(f"{meta_run.node_id}{meta_run.task_id:04d}{i:03d}")
CohortId(node, task, i) == ParseFloat(CohortIdText(node, task, i))

\* cohort_ids = [... for i in range(0, n)]
CohortIds(node, task, n) == [k \in 1..n |-> CohortId(node, task, k - 1)]

\* faulty variant: the fields of the table name are not separated
NoSep == <<>>

\* the separator of the fields of the cohort table name
TableSep == <<"_">>

\* f"cohort_{meta_run.task_id}_{meta_run.node_id}"
CohortTable(task, node) ==
    <<"c", "o", "h", "o", "r", "t">> \o TableSep \o Str(task) \o TableSep \o Str(node)

\* The documented digit layout read back: the last 3 digits are the index, the
\* 4 digits before them the task id, all leading digits the node id.
Decompose(id) ==
    LET n == Len(id)
        cutI == IF n > IndexPad THEN n - IndexPad ELSE 0
        cutT == IF cutI > TaskPad THEN cutI - TaskPad ELSE 0
    IN  [node |-> ParseInt(SubSeq(id, 1, cutT)),
         task |-> ParseInt(SubSeq(id, cutT + 1, cutI)),
         index |-> ParseInt(SubSeq(id, cutI + 1, n))]

----------------------------------------------------------------------------
(* The identifier derivation applied to two work items *)

NodeIds == {1, 7, 11, 12}
TaskIds == {0, 1, 9, 11, 34, 100, 1000, 9999, 10000, 10001}
Indexes == {0, 1, 9, 10, 100, 999}

Items == [node : NodeIds, task : TaskIds, index : Indexes]

NoId == <<"?">>

DrvInit == drv \in [1..2 -> {[item |-> it, derived |-> FALSE, id |-> NoId] : it \in Items}]

DrvIdle == drv = <<>>

\* one element of the list comprehension of lines 118-120
Derive(k) ==
    /\ k \in DOMAIN drv
    /\ ~drv[k].derived
    /\ LET it == drv[k].item
       IN  drv' = [drv EXCEPT ![k] =
                     [item |-> it, derived |-> TRUE,
                      id |-> CohortId(it.node, it.task, it.index)]]
    /\ UNCHANGED <<centralVars, inv>>

----------------------------------------------------------------------------
(* cohort_diagnostics(): one invocation, step by step *)

StepOrder ==
    <<"build_items", "create_tables", "generate_cohort_set", "temporal_settings",
      "execute_diagnostics", "read_csv", "to_json">>

RunNodes == {1, 11}
RunTasks == {1, 11, 34}

NoName == <<"?">>
NoResult == "none"

Invocations ==
    {[node |-> nd, task |-> tk, n |-> n, pc |-> "build_items", cohort_ids |-> <<>>,
      cohort_table |-> NoName, tried |-> <<>>, log |-> <<>>, result |-> NoResult] :
        nd \in RunNodes, tk \in RunTasks, n \in 0..MaxCohorts}

InvInit == inv \in [1..2 -> Invocations]

InvIdle == inv = <<>>

\* the step after `step` in the function body
StepAfter(step) ==
    LET i == CHOOSE j \in 1..Len(StepOrder) : StepOrder[j] = step
    IN  IF i < Len(StepOrder) THEN StepOrder[i + 1] ELSE "returned"

\* faulty variant: a failed step is swallowed and the next one runs
SwallowFailure(step) == StepAfter(step)

\* nothing in cohort_diagnostics() catches an exception: a failed step ends it
AfterStepFailure(step) == "raised"

\* a step completes and control moves on
Completed(w) ==
    [w EXCEPT !.tried = Append(w.tried, w.pc), !.log = Append(w.log, w.pc),
              !.pc = StepAfter(w.pc)]

\* a step raises
Raised(w) == [w EXCEPT !.tried = Append(w.tried, w.pc), !.pc = AfterStepFailure(w.pc)]

At(k, step) == k \in DOMAIN inv /\ inv[k].pc = step

\* lines 114-133: the cohort ids and the cohort definition set
BuildItems(k) ==
    /\ At(k, "build_items")
    /\ LET w == inv[k]
       IN  inv' = [inv EXCEPT ![k] =
                     [Completed(w) EXCEPT
                         !.cohort_ids = CohortIds(w.node, w.task, w.n)]]
    /\ UNCHANGED <<centralVars, drv>>

\* _create_cohort_query or the DataFrame constructor raises
BuildItemsFail(k) ==
    /\ At(k, "build_items")
    /\ inv' = [inv EXCEPT ![k] = Raised(inv[k])]
    /\ UNCHANGED <<centralVars, drv>>

\* lines 135-148: the cohort table names, then create_cohort_tables
CreateTables(k) ==
    /\ At(k, "create_tables")
    /\ LET w == inv[k]
       IN  inv' = [inv EXCEPT ![k] =
                     [Completed(w) EXCEPT
                         !.cohort_table = CohortTable(w.task, w.node)]]
    /\ UNCHANGED <<centralVars, drv>>

\* create_cohort_tables raises, the table name already derived
CreateTablesFail(k) ==
    /\ At(k, "create_tables")
    /\ LET w == inv[k]
       IN  inv' = [inv EXCEPT ![k] =
                     [Raised(w) EXCEPT !.cohort_table = CohortTable(w.task, w.node)]]
    /\ UNCHANGED <<centralVars, drv>>

\* lines 150-159: convert_to_r and generate_cohort_set
GenerateCohortSet(k) ==
    /\ At(k, "generate_cohort_set")
    /\ inv' = [inv EXCEPT ![k] = Completed(inv[k])]
    /\ UNCHANGED <<centralVars, drv>>

GenerateCohortSetFail(k) ==
    /\ At(k, "generate_cohort_set")
    /\ inv' = [inv EXCEPT ![k] = Raised(inv[k])]
    /\ UNCHANGED <<centralVars, drv>>

\* lines 161-164: create_temporal_covariate_settings
TemporalSettings(k) ==
    /\ At(k, "temporal_settings")
    /\ inv' = [inv EXCEPT ![k] = Completed(inv[k])]
    /\ UNCHANGED <<centralVars, drv>>

TemporalSettingsFail(k) ==
    /\ At(k, "temporal_settings")
    /\ inv' = [inv EXCEPT ![k] = Raised(inv[k])]
    /\ UNCHANGED <<centralVars, drv>>

\* lines 166-186: execute_diagnostics
ExecuteDiagnostics(k) ==
    /\ At(k, "execute_diagnostics")
    /\ inv' = [inv EXCEPT ![k] = Completed(inv[k])]
    /\ UNCHANGED <<centralVars, drv>>

ExecuteDiagnosticsFail(k) ==
    /\ At(k, "execute_diagnostics")
    /\ inv' = [inv EXCEPT ![k] = Raised(inv[k])]
    /\ UNCHANGED <<centralVars, drv>>

\* lines 188-189: read back incidence_rate.csv
ReadCsv(k) ==
    /\ At(k, "read_csv")
    /\ inv' = [inv EXCEPT ![k] = Completed(inv[k])]
    /\ UNCHANGED <<centralVars, drv>>

ReadCsvFail(k) ==
    /\ At(k, "read_csv")
    /\ inv' = [inv EXCEPT ![k] = Raised(inv[k])]
    /\ UNCHANGED <<centralVars, drv>>

\* line 191: return df.to_json()
ReturnJson(k) ==
    /\ At(k, "to_json")
    /\ inv' = [inv EXCEPT ![k] = [Completed(inv[k]) EXCEPT !.result = "json"]]
    /\ UNCHANGED <<centralVars, drv>>

----------------------------------------------------------------------------
(* Specifications *)

Init == CentralInit /\ DrvIdle /\ InvIdle

CentralStep ==
    \/ CentralList
    \/ CentralListFail
    \/ CentralCreate
    \/ CentralCreateFail
    \/ CentralWaitCall
    \/ CentralWaitReturn
    \/ CentralWaitFail

Next ==
    \/ CentralStep
    \/ \E i \in 1..MaxOrg : RunDone(i) \/ RunFail(i)

Spec == Init /\ [][Next]_vars

\* wait_for_results is a blocking call that returns once it is not blocked; central
\* takes its next statement; every node runs its invocation to an outcome.
LiveSpec ==
    /\ Spec
    /\ WF_vars(CentralList)
    /\ WF_vars(CentralCreate)
    /\ WF_vars(CentralWaitCall)
    /\ WF_vars(CentralWaitReturn)
    /\ \A i \in 1..MaxOrg : WF_vars(RunDone(i) \/ RunFail(i))

IdInit == CentralIdle /\ DrvInit /\ InvIdle

IdNext == \E k \in 1..2 : Derive(k)

IdSpec == IdInit /\ [][IdNext]_vars

WorkerInit == CentralIdle /\ DrvIdle /\ InvInit

WorkerNext ==
    \E k \in 1..2 :
        \/ BuildItems(k)
        \/ BuildItemsFail(k)
        \/ CreateTables(k)
        \/ CreateTablesFail(k)
        \/ GenerateCohortSet(k)
        \/ GenerateCohortSetFail(k)
        \/ TemporalSettings(k)
        \/ TemporalSettingsFail(k)
        \/ ExecuteDiagnostics(k)
        \/ ExecuteDiagnosticsFail(k)
        \/ ReadCsv(k)
        \/ ReadCsvFail(k)
        \/ ReturnJson(k)

WorkerSpec == WorkerInit /\ [][WorkerNext]_vars

----------------------------------------------------------------------------
(* Claims about central() *)

KnownIds == OrgIdList(collab)

Selector == args.organizations_to_include

SelectorValid == Selector.all \/ Range(Selector.list) \subseteq Range(KnownIds)

ExpectedTargets == IF Selector.all THEN KnownIds ELSE Selector.list

CentralEnded == pc \in {"returned", "raised"}

\* C1: once the organization listing has returned and the selector is "ALL" or
\* a subset of the listed ids, central makes exactly one task.create call (none
\* before the create statement, one from then on, never a second), at most one
\* task exists, and its target list is the full listed id list for "ALL" and
\* the supplied selector otherwise.
C1_ExactlyOneTask ==
    (organizations.known /\ SelectorValid) =>
        /\ calls.create = (IF pc \in {"start", "create"} THEN 0 ELSE 1)
        /\ Len(tasks) <= 1
        /\ (pc \in {"wait", "waiting"} \/ (pc = "returned" /\ retval.kind = "list"))
              => Len(tasks) = 1
        /\ \A n \in 1..Len(tasks) : tasks[n].organizations = ExpectedTargets

\* an explicit selector that is a proper part of the collaboration got its task
C1_Witness ==
    /\ pc = "returned"
    /\ retval.kind = "list"
    /\ ~Selector.all
    /\ Len(Selector.list) = 2
    /\ Len(KnownIds) = 3
    /\ Len(tasks) = 1
    /\ tasks[1].organizations = Selector.list

\* C2: when the selector is not "ALL" and not a subset of the listed ids, the
\* call creates no task, makes no create and no wait call, makes the one listing
\* call only, and returns the structured error message.
C2_RejectedSelector ==
    (organizations.known /\ ~SelectorValid) =>
        /\ pc = "returned"
        /\ retval = NotPartOfCollaboration
        /\ tasks = <<>>
        /\ calls = [list |-> 1, create |-> 0, wait |-> 0]
        /\ svcResults = <<>>

\* a selector naming an organization outside a non-empty collaboration was rejected
C2_Witness ==
    /\ pc = "returned"
    /\ retval = NotPartOfCollaboration
    /\ KnownIds # <<>>
    /\ \E n \in 1..Len(Selector.list) : Selector.list[n] \notin Range(KnownIds)
    /\ \E n \in 1..Len(Selector.list) : Selector.list[n] \in Range(KnownIds)

\* C4: a failed service call ends central with that failure and without a
\* return value; no call is repeated: each endpoint is called at most once; a
\* listing failure leaves no task and no create call; a task-creation failure
\* leaves no wait call.
C4_FailurePropagates ==
    /\ calls.list <= 1 /\ calls.create <= 1 /\ calls.wait <= 1
    /\ Len(failed) <= 1
    /\ failed # <<>> => (pc = "raised" /\ retval = NoValue)
    /\ pc = "raised" => failed # <<>>
    /\ failed = <<"list">> => (tasks = <<>> /\ calls.create = 0 /\ calls.wait = 0)
    /\ failed = <<"create">> => calls.wait = 0

\* the wait call failed after the task was created and a participant had finished
C4_Witness ==
    /\ pc = "raised"
    /\ failed = <<"wait">>
    /\ Len(tasks) = 1
    /\ svcResults # <<>>

KwargsKeys ==
    {"cohort_definitions", "cohort_names", "temporal_covariate_settings",
     "diagnostics_settings"}

\* C5: every task created carries the method name "cohort_diagnostics" and
\* kwargs with exactly the four keys, each bound to the value central received;
\* and the list central returns is the service's result list, same content and
\* same order.
C5_PassThrough ==
    /\ \A n \in 1..Len(tasks) :
          /\ tasks[n].input.method = "cohort_diagnostics"
          /\ DOMAIN tasks[n].input.kwargs = KwargsKeys
          /\ tasks[n].input.kwargs.cohort_definitions = args.cohort_definitions
          /\ tasks[n].input.kwargs.cohort_names = args.cohort_names
          /\ tasks[n].input.kwargs.temporal_covariate_settings
                = args.temporal_covariate_settings
          /\ tasks[n].input.kwargs.diagnostics_settings = args.diagnostics_settings
    /\ (pc = "returned" /\ retval.kind = "list") => retval.list = svcResults

\* results came back in an order that is not the target order, and were returned
C5_Witness ==
    /\ pc = "returned"
    /\ retval.kind = "list"
    /\ Len(tasks) = 1
    /\ ~Selector.all
    /\ Len(retval.list) = 2
    /\ retval.list[1].organization = Targets[2]
    /\ retval.list[2].organization = Targets[1]
    /\ Len(args.cohort_definitions) = 2

AllTerminal == \A i \in DOMAIN outcome : outcome[i] \in {"done", "failed"}

\* central returns a result list only when every targeted participant has a
\* terminal outcome, and the list then holds one result per participant
BarrierHolds ==
    (pc = "returned" /\ retval.kind = "list") =>
        /\ AllTerminal
        /\ Len(retval.list) = Len(Targets)
        /\ Len(tasks) = 1

\* a participant that has no outcome yet can still succeed and can still fail,
\* whatever the outcomes of the others
OthersUnaffected ==
    \A i \in DOMAIN outcome :
        outcome[i] = "pending" => (ENABLED RunDone(i) /\ ENABLED RunFail(i))

\* an outcome, once reached, is never changed by another participant or by central
OutcomesStable ==
    [][\A i \in DOMAIN outcome :
          outcome[i] # "pending" => (i \in DOMAIN outcome' /\ outcome'[i] = outcome[i])]_vars

\* every targeted participant reaches its own outcome
EachReachesOutcome ==
    \A i \in 1..MaxOrg :
        (i \in DOMAIN outcome /\ outcome[i] = "pending")
            ~> (i \in DOMAIN outcome /\ outcome[i] # "pending")

\* central is at the wait and every participant of a non-empty target list has
\* its terminal outcome
AllIn == pc \in {"wait", "waiting"} /\ Targets # <<>> /\ AllTerminal

\* C3 as claimed: the barrier, the independence of the participants, and: once
\* every targeted participant has a terminal outcome, central eventually returns.
C3_AsClaimed ==
    /\ []BarrierHolds
    /\ []OthersUnaffected
    /\ OutcomesStable
    /\ EachReachesOutcome
    /\ AllIn ~> (pc = "returned")

\* C3 (amended): the barrier, the independence of the participants, and: once
\* every targeted participant has a terminal outcome, central eventually returns
\* the results or, when the wait_for_results call itself fails, ends with that
\* failure.
C3_Barrier ==
    /\ []BarrierHolds
    /\ []OthersUnaffected
    /\ OutcomesStable
    /\ EachReachesOutcome
    /\ AllIn ~> (pc = "returned" \/ (pc = "raised" /\ failed = <<"wait">>))

\* central returned the results of three participants of which one failed
C3_Witness ==
    /\ pc = "returned"
    /\ retval.kind = "list"
    /\ Len(Targets) = 3
    /\ \E i, j \in DOMAIN outcome : outcome[i] = "failed" /\ outcome[j] = "done"
    /\ svcResults[1].result = "none"

----------------------------------------------------------------------------
(* Claims about the cohort identifier *)

BothDerived == drv[1].derived /\ drv[2].derived

\* C6: no two distinct triples (node id, task id, index) of non-negative
\* integers derive the same cohort identifier.
C6_NoCollision ==
    (BothDerived /\ drv[1].item # drv[2].item) => drv[1].id # drv[2].id

InClaimedRange(it) == it.node = 7 /\ it.task \in 0..9999 /\ it.index \in 0..999

\* C7: for node id 7, task id in [0, 9999] and index in [0, 999], two distinct
\* (task id, index) pairs never derive the same cohort identifier.
C7_InjectiveInRange ==
    (/\ BothDerived
     /\ InClaimedRange(drv[1].item)
     /\ InClaimedRange(drv[2].item)
     /\ drv[1].item # drv[2].item) => drv[1].id # drv[2].id

\* two items of node 7 whose task and index digits run together without padding
C7_Witness ==
    /\ BothDerived
    /\ drv[1].item = [node |-> 7, task |-> 1, index |-> 10]
    /\ drv[2].item = [node |-> 7, task |-> 11, index |-> 0]
    /\ drv[1].id = <<"7", "0", "0", "0", "1", "0", "1", "0">>
    /\ drv[2].id = <<"7", "0", "0", "1", "1", "0", "0", "0">>

\* C8: a derived identifier decomposed by the digit layout (last 3 digits the
\* index, the 4 before them the task id, the leading digits the node id) gives
\* back the node id, task id and index it was derived from.
C8_RoundTrip ==
    \A k \in DOMAIN drv : drv[k].derived => Decompose(drv[k].id) = drv[k].item

----------------------------------------------------------------------------
(* Claims about cohort_diagnostics() *)

Named(k) == inv[k].cohort_table # NoName

Underscores(name) == Cardinality({n \in 1..Len(name) : name[n] = "_"})

\* C9: the cohort table key is "cohort_<task id>_<node id>", and two
\* invocations with different (task id, node id) pairs never hold the same key.
C9_DisjointNamespaces ==
    /\ \A k \in DOMAIN inv :
          Named(k) =>
              /\ SubSeq(inv[k].cohort_table, 1, 7) = <<"c", "o", "h", "o", "r", "t", "_">>
              /\ Underscores(inv[k].cohort_table) = 2
              /\ inv[k].cohort_table
                    = <<"c", "o", "h", "o", "r", "t", "_">> \o Str(inv[k].task)
                         \o <<"_">> \o Str(inv[k].node)
    /\ \A j, k \in DOMAIN inv :
          (/\ Named(j) /\ Named(k)
           /\ <<inv[j].task, inv[j].node>> # <<inv[k].task, inv[k].node>>)
              => inv[j].cohort_table # inv[k].cohort_table

\* two invocations whose task and node ids are each other's mirror hold their keys
C9_Witness ==
    /\ Named(1) /\ Named(2)
    /\ inv[1].task = 1 /\ inv[1].node = 11
    /\ inv[2].task = 11 /\ inv[2].node = 1
    /\ inv[1].cohort_table = <<"c", "o", "h", "o", "r", "t", "_", "1", "_", "1", "1">>

IsPrefix(s, t) == Len(s) <= Len(t) /\ SubSeq(t, 1, Len(s)) = s

\* C10: the steps of an invocation run in the order of StepOrder, each at most
\* once and none before the previous one completed; a failed step ends the
\* invocation: nothing runs after it, it is not run again, no result is
\* returned; a result is returned only after every step completed.
C10_StrictSequence ==
    \A k \in DOMAIN inv :
        LET w == inv[k] IN
        /\ IsPrefix(w.tried, StepOrder)
        /\ IsPrefix(w.log, w.tried)
        /\ w.pc = "raised" <=> Len(w.tried) = Len(w.log) + 1
        /\ w.pc # "raised" => w.tried = w.log
        /\ w.pc \notin {"raised", "returned"} =>
              (Len(w.log) < Len(StepOrder) /\ w.pc = StepOrder[Len(w.log) + 1])
        /\ w.pc = "raised" => w.result = NoResult
        /\ w.result # NoResult <=> (w.pc = "returned" /\ w.log = StepOrder)

\* one invocation failed in execute_diagnostics, the other ran to its result
C10_Witness ==
    /\ inv[1].pc = "raised"
    /\ inv[1].tried = SubSeq(StepOrder, 1, 5)
    /\ inv[1].log = SubSeq(StepOrder, 1, 4)
    /\ inv[2].pc = "returned"
    /\ inv[2].result = "json"

====
